---- MODULE Spec2Model ----
(***************************************************************************)
(* State-machine model of request.go of go-socks5: NewRequest, the         *)
(* resolve / rewrite / authorize pipeline of Server.handleRequest, the     *)
(* CONNECT, BIND and ASSOCIATE handlers, SendReply and Proxy.              *)
(* One behaviour is one client session: one request header arrives, is     *)
(* parsed, and is handled to completion together with the tasks the        *)
(* handler submits.  ReplySpec applies SendReply alone to the headers,    *)
(* reply codes and bound addresses a caller may pass.                      *)
(***************************************************************************)
EXTENDS Integers, Sequences, FiniteSets, TLC

\* ------------------------------------------------------------------ bounds
\* Chunks the client may have in flight or relayed on the control stream.
MaxPayload == 1
\* Datagrams the forwarding task may receive on the bind socket.
MaxDatagrams == 2
\* Datagrams / chunks the destination may send back.
MaxReplies == 1

\* --------------------------------------------------------- protocol values
CommandConnect == 1
CommandBind == 2
CommandAssociate == 3

ATYPIPv4 == 1
ATYPDomain == 3
ATYPIPV6 == 4

RepSuccess == "Success"
RepServerFailure == "ServerFailure"
RepRuleFailure == "RuleFailure"
RepNetworkUnreachable == "NetworkUnreachable"
RepHostUnreachable == "HostUnreachable"
RepConnectionRefused == "ConnectionRefused"
RepCommandNotSupported == "CommandNotSupported"

\* Command bytes a parsed header may carry (two of them outside 1..3).
WireCommands == 0 .. 4

\* ------------------------------------------------------------ IP addresses
\* A net.IP is a byte slice; the nil slice is the empty tuple.
NilIP == << >>
IPv4Zero == <<0, 0, 0, 0>>
IPv4Dest == <<93, 184, 216, 34>>
IPv4Resolved == <<8, 8, 8, 8>>
IPv4Local == <<127, 0, 0, 1>>
IPv4Mapped == <<0, 0, 0, 0, 0, 0, 0, 0, 0, 0, 255, 255, 127, 0, 0, 1>>
IPv6Local == <<32, 1, 13, 184, 0, 0, 0, 0, 0, 0, 0, 0, 0, 0, 0, 1>>
IPBadLen == <<10, 0, 1>>

\* net.IP.To4: the 4-byte form, or nil.
To4(ip) ==
    IF Len(ip) = 4 THEN ip
    ELSE IF /\ Len(ip) = 16
            /\ \A i \in 1 .. 10 : ip[i] = 0
            /\ ip[11] = 255
            /\ ip[12] = 255
         THEN SubSeq(ip, 13, 16)
         ELSE NilIP

\* net.IP.To16: the 16-byte form, or nil.
To16(ip) ==
    IF Len(ip) = 4
    THEN <<0, 0, 0, 0, 0, 0, 0, 0, 0, 0, 255, 255>> \o ip
    ELSE IF Len(ip) = 16 THEN ip ELSE NilIP

\* ------------------------------------------------------------------ AddrSpec
AddrSpec(fqdn, ip, port) == [FQDN |-> fqdn, IP |-> ip, Port |-> port]

ZeroSpec == AddrSpec("", NilIP, 0)

\* Destinations a client may ask for: a literal IPv4 address or a name.
WireAddrs ==
    { [atyp |-> ATYPIPv4, addr |-> AddrSpec("", IPv4Dest, 80)],
      [atyp |-> ATYPDomain, addr |-> AddrSpec("example.com", NilIP, 80)] }

\* What the address rewriter may answer.
RewriteTargets == { AddrSpec("", IPv4Local, 8080) }

\* ----------------------------------------------------------- bound addresses
\* A net.Addr handed to SendReply: its dynamic type and its fields.
NetAddr(kind, ip, port) == [kind |-> kind, IP |-> ip, Port |-> port]

\* Local addresses a dialed TCP target may report.
TargetLocalAddrs ==
    { NetAddr("tcp", IPv4Local, 55001),
      NetAddr("tcp", NilIP, 55001),
      NetAddr("other", NilIP, 0) }

\* Local address of the wildcard socket net.ListenUDP("udp", nil) returns.
IPv6Unspecified == <<0, 0, 0, 0, 0, 0, 0, 0, 0, 0, 0, 0, 0, 0, 0, 0>>
BindLocalAddr == NetAddr("udp", IPv6Unspecified, 40000)

\* --------------------------------------------------------------- SendReply
\* An address selection that does not know *net.UDPAddr.
SendReplySpecIgnoresUDP(bindAddr) ==
    IF Len(bindAddr) = 0 THEN ZeroSpec
    ELSE IF bindAddr[1].kind \in {"tcp"}
         THEN AddrSpec("", bindAddr[1].IP, bindAddr[1].Port)
         ELSE AddrSpec("", IPv4Zero, 0)

\* addrSpec, lines 335-345.
SendReplySpec(bindAddr) ==
    IF Len(bindAddr) = 0 THEN ZeroSpec
    ELSE IF bindAddr[1].kind \in {"tcp", "udp"}
         THEN AddrSpec("", bindAddr[1].IP, bindAddr[1].Port)
         ELSE AddrSpec("", IPv4Zero, 0)

\* The reply header SendReply builds from a copy of the request header, and
\* the error it returns; wok is whether w.Write succeeds.  bindAddr is the
\* variadic argument: the empty tuple, or a one-element tuple.  head is a
\* value parameter: caller is the caller's header after the call.
SendReply(head, resp, bindAddr, wok) ==
    LET spec == SendReplySpec(bindAddr)
        h0 == [head EXCEPT !.Command = resp]
        h1 == IF Len(bindAddr) = 0
              THEN [h0 EXCEPT !.addrType = ATYPIPv4,
                              !.Address.IP = IPv4Zero,
                              !.Address.Port = 0]
              ELSE IF spec.FQDN # ""
              THEN [h0 EXCEPT !.addrType = ATYPDomain,
                              !.Address.FQDN = spec.FQDN,
                              !.Address.Port = spec.Port]
              ELSE IF To4(spec.IP) # NilIP
              THEN [h0 EXCEPT !.addrType = ATYPIPv4,
                              !.Address.IP = To4(spec.IP),
                              !.Address.Port = spec.Port]
              ELSE IF To16(spec.IP) # NilIP
              THEN [h0 EXCEPT !.addrType = ATYPIPV6,
                              !.Address.IP = To16(spec.IP),
                              !.Address.Port = spec.Port]
              ELSE h0
        fmtErr == /\ Len(bindAddr) # 0
                  /\ spec.FQDN = ""
                  /\ To4(spec.IP) = NilIP
                  /\ To16(spec.IP) = NilIP
    IN  [ status |-> resp,
          head   |-> h1,
          caller |-> head,
          out    |-> IF fmtErr THEN "fmterr" ELSE IF wok THEN "ok" ELSE "werr",
          err    |-> IF fmtErr THEN "failed to format address"
                     ELSE IF wok THEN "nil" ELSE "write error" ]

\* ------------------------------------------------------------- dial errors
\* An error text is a sequence of words; strings.Contains is "occurs as a
\* contiguous run of words".
Contains(msg, pat) ==
    \E i \in 0 .. (Len(msg) - Len(pat)) :
        \A j \in 1 .. Len(pat) : msg[i + j] = pat[j]

PatRefused == <<"refused">>
PatNetUnreachable == <<"network", "is", "unreachable">>
PatClosedConn == <<"use", "of", "closed", "network", "connection">>

\* Errors a dial may return.
DialErrors ==
    { <<"dial", "tcp", "connection", "refused">>,
      <<"connect", "network", "is", "unreachable">>,
      <<"refused", "network", "is", "unreachable">>,
      <<"network", "unreachable">>,
      <<"i/o", "timeout">> }

\* handleConnect, lines 137-143.
ConnectDialReply(msg) ==
    IF Contains(msg, PatRefused) THEN RepConnectionRefused
    ELSE IF Contains(msg, PatNetUnreachable) THEN RepNetworkUnreachable
    ELSE RepHostUnreachable

\* The two tests of the classification taken in the other order.
AssociateDialReplySwapped(msg) ==
    IF Contains(msg, PatNetUnreachable) THEN RepNetworkUnreachable
    ELSE IF Contains(msg, PatRefused) THEN RepConnectionRefused
    ELSE RepHostUnreachable

\* handleAssociate, lines 190-196.
AssociateDialReply(msg) ==
    IF Contains(msg, PatRefused) THEN RepConnectionRefused
    ELSE IF Contains(msg, PatNetUnreachable) THEN RepNetworkUnreachable
    ELSE RepHostUnreachable

\* Errors a read of the control stream may return.
ErrEOF == <<"EOF">>
ErrClosed == <<"read", "tcp", "use", "of", "closed", "network", "connection">>

\* ------------------------------------------------------------------- state
VARIABLES
    wire,       \* the request header on the wire: [ok, cmd, atyp, addr]
    cfg,        \* the Server's options: rewriter and the user handlers
    stream,     \* bufConn: [hdr, avail, st]
    req,        \* the *Request NewRequest returned, or NoReq
    reqErr,     \* the error NewRequest returned
    pc,         \* where the session's foreground is
    ret,        \* what handleRequest returned ("none" while it runs)
    trace,      \* the collaborator calls made so far, in order
    replies,    \* the SendReply calls made on the client writer, in order
    target,     \* the dialed connection: [st, kind, local, wr, remote, tin]
    bindLn,     \* the UDP listening socket: "none", "open", "closed"
    outstanding,\* buffers taken from the pool and not yet returned
    call        \* a SendReply call made on its own: arguments and result

pipeVars == <<wire, call, cfg, stream, req, reqErr, pc, ret, trace, replies>>

VARIABLES
    p1,         \* task Proxy(target, request.Reader): [pc, res]
    p2,         \* task Proxy(writer, target): [pc, res]
    eCh1,       \* result channel of p1
    eCh2,       \* result channel of p2
    got,        \* the channels the handler's select received from, in order
    order,      \* the channels in the order their values were sent
    toTarget,   \* chunks copied client -> target
    toClient,   \* chunks copied target -> client
    clientWr    \* whether the client writer has been half-closed

connVars == <<p1, p2, eCh1, eCh2, got, order, toTarget, toClient, clientWr>>

VARIABLES
    fwd,        \* the forwarding task: [pc, src, data]
    conns,      \* the session table (sync.Map): the source addresses stored
    rt,         \* the return-path task of each source: [pc, data]
    spawned,    \* how many return-path tasks were submitted for each source
    dgrams,     \* the datagrams read from the bind socket, in order
    destWrites, \* the payloads written to the destination socket, in order
    bindWrites, \* the datagrams written to the bind socket, in order
    eofReads    \* the parity of the number of failing reads of the control
                \* stream that the foreground ignored (TRUE: odd)

assocVars == <<fwd, conns, rt, spawned, dgrams, destWrites, bindWrites, eofReads>>

sockVars == <<target, bindLn, outstanding>>

vars == <<pipeVars, sockVars, connVars, assocVars>>

\* Client source addresses and datagram payloads.  A payload is opaque to
\* the relay: the k-th datagram of a session carries payload k, and the
\* k-th datagram the destination sends is its answer k.  0 is no payload.
Sources == {"10.0.0.1:5000", "10.0.0.2:5000"}
Data == 1 .. MaxDatagrams

\* The sets of commands a Server may have user handlers registered for.
Overrides == { {}, {CommandConnect, CommandBind, CommandAssociate} }

NoReq == [Command |-> 0]

\* No SendReply call made on its own.
NoCall == [st |-> "none", head |-> [Version |-> 0, Command |-> 0, addrType |-> 0,
                                    Address |-> ZeroSpec],
           resp |-> "", bindAddr |-> << >>, wok |-> FALSE, r |-> << >>]

NoTarget == [st |-> "none", kind |-> "none", local |-> NetAddr("other", NilIP, 0),
             wr |-> FALSE, remote |-> "open", tin |-> 0, sentIn |-> 0]

\* A call of a collaborator: which, with what address, and the error (or
\* denial) it answered.
Event(ev, arg) == [ev |-> ev, arg |-> arg, err |-> << >>]

\* A dial call: the network, the address dialed and the error returned.
DialEvent(net, arg, err) == [ev |-> "dial:" \o net, arg |-> arg, err |-> err]

\* A result channel made without its one slot.
MakeChanUnbuffered == [buf |-> << >>, cap |-> 0]

\* make(chan error, 1), lines 157-158.
MakeChan == [buf |-> << >>, cap |-> 1]

Init ==
    /\ wire \in { [ok |-> o, cmd |-> c, atyp |-> a.atyp, addr |-> a.addr] :
                  o \in BOOLEAN, c \in WireCommands, a \in WireAddrs }
    /\ cfg \in [ rewriter : BOOLEAN, user : Overrides ]
    /\ stream = [hdr |-> TRUE, avail |-> 0, st |-> "open"]
    /\ req = NoReq
    /\ reqErr = "none"
    /\ pc = "new"
    /\ ret = "none"
    /\ trace = << >>
    /\ replies = << >>
    /\ target = NoTarget
    /\ bindLn = "none"
    /\ outstanding = 0
    /\ p1 = [pc |-> "idle", res |-> "none"]
    /\ p2 = [pc |-> "idle", res |-> "none"]
    /\ eCh1 = MakeChan
    /\ eCh2 = MakeChan
    /\ got = << >>
    /\ order = << >>
    /\ toTarget = 0
    /\ toClient = 0
    /\ clientWr = FALSE
    /\ fwd = [pc |-> "idle", src |-> "", data |-> 0]
    /\ conns = {}
    /\ rt = [a \in Sources |-> [pc |-> "idle", data |-> 0]]
    /\ spawned = [a \in Sources |-> 0]
    /\ dgrams = << >>
    /\ destWrites = << >>
    /\ bindWrites = << >>
    /\ eofReads = FALSE
    /\ call = NoCall

\* ------------------------------------------------------------- NewRequest
\* Parse (header codec): fails on a malformed header, else yields the Header.
Parse(w) ==
    IF w.ok
    THEN [err |-> "nil",
          hd  |-> [Version |-> 5, Command |-> w.cmd, addrType |-> w.atyp,
                   Address |-> w.addr]]
    ELSE [err |-> "malformed header",
          hd  |-> [Version |-> 0, Command |-> 0, addrType |-> 0, Address |-> ZeroSpec]]

\* A command check with no upper limit.
SupportedCommandNoUpperLimit(c) == c >= CommandConnect

\* The command check of NewRequest, line 57.
SupportedCommand(c) ==
    ~(c # CommandConnect /\ c # CommandBind /\ c # CommandAssociate)

\* NewRequest's result: (nil, err) or (&Request{...}, nil).
NewRequestResult(w) ==
    LET p == Parse(w) IN
    IF p.err # "nil" THEN [err |-> p.err, req |-> NoReq]
    ELSE IF ~SupportedCommand(p.hd.Command)
    THEN [err |-> "unrecognized command", req |-> NoReq]
    ELSE [err |-> "nil",
          req |-> [Command     |-> p.hd.Command,
                   Header      |-> p.hd,
                   RawDestAddr |-> p.hd.Address,
                   DestRef     |-> "nil",
                   Rewritten   |-> ZeroSpec,
                   Reader      |-> "bufConn"]]

NewRequest ==
    /\ pc = "new"
    /\ LET r == NewRequestResult(wire) IN
        /\ req' = r.req
        /\ reqErr' = r.err
        /\ pc' = IF r.err = "nil" THEN "resolve" ELSE "rejected"
    /\ stream' = [stream EXCEPT !.hdr = FALSE]
    /\ UNCHANGED <<wire, call, cfg, ret, trace, replies, sockVars, connVars, assocVars>>

\* -------------------------------------------------------- handleRequest
\* request.DestAddr dereferenced: the raw destination while it is an alias.
DestVal == IF req.DestRef = "new" THEN req.Rewritten ELSE req.RawDestAddr

\* The error handleRequest returns after a failure reply r, lines 76-79,
\* 94-97, 119-122 and the like.
AfterReply(r, err) == IF r.err # "nil" THEN "failed to send reply" ELSE err

\* Addresses the resolver may answer.
ResolvedIPs == { IPv4Resolved }

\* The resolution followed at once by the rule check.
AfterResolveSkipsRewrite == "allow"

\* The step that follows the resolution, lines 85-89.
AfterResolve == "rewrite"

\* Lines 72-73: no FQDN, the resolver is not called.
ResolveSkip ==
    /\ pc = "resolve"
    /\ req.RawDestAddr.FQDN = ""
    /\ pc' = AfterResolve
    /\ UNCHANGED <<wire, call, cfg, stream, req, reqErr, ret, trace, replies, sockVars, connVars, assocVars>>

\* A resolver failure answered with the wrong status.
ResolveFailReplyWrongCode == RepNetworkUnreachable

\* The reply code for a resolver failure, line 76.
ResolveFailReply == RepHostUnreachable

\* Lines 74-80: the resolver fails.
ResolveFail ==
    /\ pc = "resolve"
    /\ req.RawDestAddr.FQDN # ""
    /\ \E wok \in BOOLEAN :
        LET r == SendReply(req.Header, ResolveFailReply, << >>, wok) IN
        /\ replies' = Append(replies, r)
        /\ ret' = AfterReply(r, "failed to resolve destination")
    /\ trace' = Append(trace, [ev |-> "resolve", arg |-> req.RawDestAddr, err |-> <<"failed">>])
    /\ pc' = "done"
    /\ UNCHANGED <<wire, call, cfg, stream, req, reqErr, sockVars, connVars, assocVars>>

\* A store of the resolved address that also clears the name.
StoreResolvedDropsName(dest, addr) == [dest EXCEPT !.IP = addr, !.FQDN = ""]

\* dest.IP = addr, line 82: dest is the pointer req.RawDestAddr, so the
\* store is made in the AddrSpec RawDestAddr points to.
StoreResolved(dest, addr) == [dest EXCEPT !.IP = addr]

\* Lines 74, 81-82: the resolver answers; the address is stored through dest.
ResolveOk ==
    /\ pc = "resolve"
    /\ req.RawDestAddr.FQDN # ""
    /\ \E addr \in ResolvedIPs :
        req' = [req EXCEPT !.RawDestAddr = StoreResolved(@, addr)]
    /\ trace' = Append(trace, Event("resolve", req.RawDestAddr))
    /\ pc' = AfterResolve
    /\ UNCHANGED <<wire, call, cfg, stream, reqErr, ret, replies, sockVars, connVars, assocVars>>

\* Lines 86-89: DestAddr aliases RawDestAddr, then the rewriter replaces it.
Rewrite ==
    /\ pc = "rewrite"
    /\ IF cfg.rewriter
       THEN /\ \E a \in RewriteTargets :
                req' = [req EXCEPT !.DestRef = "new", !.Rewritten = a]
            /\ trace' = Append(trace, Event("rewrite", req.RawDestAddr))
       ELSE /\ req' = [req EXCEPT !.DestRef = "raw"]
            /\ trace' = trace
    /\ pc' = "allow"
    /\ UNCHANGED <<wire, call, cfg, stream, reqErr, ret, replies, sockVars, connVars, assocVars>>

\* A denial answered with the wrong status.
RuleDenyReplyWrongCode == RepServerFailure

\* The reply code for a rule denial, line 94.
RuleDenyReply == RepRuleFailure

\* A denial that is answered but not returned from.
AfterDenyFallsThrough == "dispatch"

\* Where handleRequest goes after a denial has been answered, lines 93-98.
AfterDeny == "done"

\* Lines 92-99: the rule check, and the denial.
AllowDenied ==
    /\ pc = "allow"
    /\ \E wok \in BOOLEAN :
        LET r == SendReply(req.Header, RuleDenyReply, << >>, wok) IN
        /\ replies' = Append(replies, r)
        /\ ret' = IF AfterDeny = "done" THEN AfterReply(r, "blocked by rules") ELSE ret
    /\ trace' = Append(trace, [ev |-> "allow", arg |-> DestVal, err |-> <<"denied">>])
    /\ pc' = AfterDeny
    /\ UNCHANGED <<wire, call, cfg, stream, req, reqErr, sockVars, connVars, assocVars>>

AllowOk ==
    /\ pc = "allow"
    /\ trace' = Append(trace, Event("allow", DestVal))
    /\ pc' = "dispatch"
    /\ UNCHANGED <<wire, call, cfg, stream, req, reqErr, ret, replies, sockVars, connVars, assocVars>>

\* ------------------------------------------------------------ the dispatch
\* Lines 104, 109, 114: whether a user handler overrides the command.
UserHandles(c) == c \in cfg.user

HandlerName(c) ==
    IF c = CommandConnect THEN "Connect"
    ELSE IF c = CommandBind THEN "Bind" ELSE "Associate"

\* Lines 105, 110, 115: the user handler takes the request and returns.
DispatchUser ==
    /\ pc = "dispatch"
    /\ UserHandles(req.Command)
    /\ trace' = Append(trace, Event("user" \o HandlerName(req.Command), DestVal))
    /\ \E e \in {"nil", "user handler error"} : ret' = e
    /\ pc' = "done"
    /\ UNCHANGED <<wire, call, cfg, stream, req, reqErr, replies, sockVars, connVars, assocVars>>

\* Line 107.
DispatchConnect ==
    /\ pc = "dispatch"
    /\ req.Command = CommandConnect
    /\ ~UserHandles(req.Command)
    /\ trace' = Append(trace, Event("handleConnect", DestVal))
    /\ pc' = "c_dial"
    /\ UNCHANGED <<wire, call, cfg, stream, req, reqErr, ret, replies, sockVars, connVars, assocVars>>

\* Lines 112 and 171-177: handleBind answers CommandNotSupported and returns.
DispatchBind ==
    /\ pc = "dispatch"
    /\ req.Command = CommandBind
    /\ ~UserHandles(req.Command)
    /\ trace' = Append(trace, Event("handleBind", DestVal))
    /\ \E wok \in BOOLEAN :
        LET r == SendReply(req.Header, RepCommandNotSupported, << >>, wok) IN
        /\ replies' = Append(replies, r)
        /\ ret' = AfterReply(r, "nil")
    /\ pc' = "done"
    /\ UNCHANGED <<wire, call, cfg, stream, req, reqErr, sockVars, connVars, assocVars>>

\* Line 117.
DispatchAssociate ==
    /\ pc = "dispatch"
    /\ req.Command = CommandAssociate
    /\ ~UserHandles(req.Command)
    /\ trace' = Append(trace, Event("handleAssociate", DestVal))
    /\ pc' = "a_dial"
    /\ UNCHANGED <<wire, call, cfg, stream, req, reqErr, ret, replies, sockVars, connVars, assocVars>>

\* Lines 118-123: the default branch of the switch.
DispatchDefault ==
    /\ pc = "dispatch"
    /\ req.Command \notin {CommandConnect, CommandBind, CommandAssociate}
    /\ \E wok \in BOOLEAN :
        LET r == SendReply(req.Header, RepCommandNotSupported, << >>, wok) IN
        /\ replies' = Append(replies, r)
        /\ ret' = AfterReply(r, "unsupported command")
    /\ trace' = Append(trace, Event("default", DestVal))
    /\ pc' = "done"
    /\ UNCHANGED <<wire, call, cfg, stream, req, reqErr, sockVars, connVars, assocVars>>

\* The whole switch, lines 102-123.  The default branch is part of it: no
\* request NewRequest returns takes it.
Dispatch ==
    IF req.Command \in {CommandConnect, CommandBind, CommandAssociate}
    THEN \/ DispatchUser
         \/ DispatchConnect
         \/ DispatchBind
         \/ DispatchAssociate
    ELSE DispatchDefault

\* ------------------------------------------------------------ environment
\* The client sends a chunk on the control connection.
ClientSends ==
    /\ pc \in {"c_reply", "c_submit1", "c_submit2", "c_wait", "a_reply", "a_submit", "a_read"}
    /\ stream.st = "open"
    /\ stream.avail + toTarget + (IF p1.pc = "write" THEN 1 ELSE 0) < MaxPayload
    /\ stream' = [stream EXCEPT !.avail = @ + 1]
    /\ UNCHANGED <<wire, call, cfg, req, reqErr, pc, ret, trace, replies, sockVars, connVars, assocVars>>

\* The client closes the control connection: reads drain, then return io.EOF.
ClientCloses ==
    /\ pc \in {"c_wait", "a_read"}
    /\ stream.st = "open"
    /\ stream' = [stream EXCEPT !.st = "eof"]
    /\ UNCHANGED <<wire, call, cfg, req, reqErr, pc, ret, trace, replies, sockVars, connVars, assocVars>>

\* The server side closes the control connection under the handler: reads
\* return "use of closed network connection".
LocalCloses ==
    /\ pc \in {"c_wait", "a_read"}
    /\ stream.st # "closed"
    /\ stream' = [stream EXCEPT !.st = "closed", !.avail = 0]
    /\ UNCHANGED <<wire, call, cfg, req, reqErr, pc, ret, trace, replies, sockVars, connVars, assocVars>>

\* The destination sends a chunk to the dialed TCP socket, or answers a
\* datagram it was sent on the dialed UDP socket.
DestSends ==
    /\ target.st = "open"
    /\ target.remote = "open"
    /\ target.sentIn < MaxReplies
    /\ target.kind = "udp" => target.sentIn < Len(destWrites)
    /\ pc \in {"c_wait", "a_read"}
    /\ target' = [target EXCEPT !.tin = @ + 1, !.sentIn = @ + 1]
    /\ UNCHANGED <<pipeVars, bindLn, outstanding, connVars, assocVars>>

\* The destination closes its end of the TCP connection.
DestCloses ==
    /\ target.st = "open"
    /\ target.kind = "tcp"
    /\ target.remote = "open"
    /\ pc = "c_wait"
    /\ target' = [target EXCEPT !.remote = "eof"]
    /\ UNCHANGED <<pipeVars, bindLn, outstanding, connVars, assocVars>>

\* ------------------------------------------------------------ handleConnect
\* Lines 135-148: the dial fails; one reply, then the error.
ConnectDialFail ==
    /\ pc = "c_dial"
    /\ \E msg \in DialErrors, wok \in BOOLEAN :
        LET r == SendReply(req.Header, ConnectDialReply(msg), << >>, wok) IN
        /\ replies' = Append(replies, r)
        /\ ret' = AfterReply(r, "connect failed")
        /\ trace' = Append(trace, DialEvent("tcp", DestVal, msg))
    /\ pc' = "done"
    /\ UNCHANGED <<wire, call, cfg, stream, req, reqErr, sockVars, connVars, assocVars>>

\* Lines 135, 149: the dial succeeds.
ConnectDialOk ==
    /\ pc = "c_dial"
    /\ \E la \in TargetLocalAddrs :
        target' = [NoTarget EXCEPT !.st = "open", !.kind = "tcp", !.local = la]
    /\ trace' = Append(trace, DialEvent("tcp", DestVal, << >>))
    /\ pc' = "c_reply"
    /\ UNCHANGED <<wire, call, cfg, stream, req, reqErr, ret, replies, bindLn, outstanding, connVars, assocVars>>

\* A handler that relays whether or not its Success reply was sent.
AfterSuccessIgnoresError(r, relay) == relay

\* Where a handler goes once its Success reply r has been attempted:
\* on to the relay, or out (lines 152-154, 223-225).
AfterSuccess(r, relay) == IF r.err # "nil" THEN "done" ELSE relay

\* A handler that leaves its target open when it returns.
ConnectDeferredCloseSkipped(t) == t

\* defer target.Close(), line 149, run when handleConnect returns.
ConnectDeferredClose(t) == [t EXCEPT !.st = "closed"]

\* Lines 151-154: the Success reply with the target's local address; on
\* failure the deferred target.Close() runs.
ConnectReply ==
    /\ pc = "c_reply"
    /\ \E wok \in BOOLEAN :
        LET r == SendReply(req.Header, RepSuccess, <<target.local>>, wok)
            to == AfterSuccess(r, "c_submit1")
        IN
        /\ replies' = Append(replies, r)
        /\ pc' = to
        /\ ret' = IF to = "done" THEN "failed to send reply" ELSE ret
        /\ target' = IF to = "done" THEN ConnectDeferredClose(target) ELSE target
    /\ UNCHANGED <<wire, call, cfg, stream, req, reqErr, trace, bindLn, outstanding, connVars, assocVars>>

\* Line 160: submit Proxy(target, request.Reader).
ConnectSubmit1 ==
    /\ pc = "c_submit1"
    /\ p1' = [p1 EXCEPT !.pc = "start"]
    /\ pc' = "c_submit2"
    /\ UNCHANGED <<wire, call, cfg, stream, req, reqErr, ret, trace, replies, sockVars,
                   p2, eCh1, eCh2, got, order, toTarget, toClient, clientWr, assocVars>>

\* Line 161: submit Proxy(writer, target).
ConnectSubmit2 ==
    /\ pc = "c_submit2"
    /\ p2' = [p2 EXCEPT !.pc = "start"]
    /\ pc' = "c_wait"
    /\ UNCHANGED <<wire, call, cfg, stream, req, reqErr, ret, trace, replies, sockVars,
                   p1, eCh1, eCh2, got, order, toTarget, toClient, clientWr, assocVars>>

\* Lines 163-167 and the deferred target.Close(): the select takes the value
\* of a ready channel; with both ready, either.
ConnectWait1 ==
    /\ pc = "c_wait"
    /\ Len(eCh1.buf) > 0
    /\ ret' = Head(eCh1.buf)
    /\ eCh1' = [eCh1 EXCEPT !.buf = Tail(@)]
    /\ got' = Append(got, "eCh1")
    /\ target' = ConnectDeferredClose(target)
    /\ pc' = "done"
    /\ UNCHANGED <<wire, call, cfg, stream, req, reqErr, trace, replies, bindLn, outstanding,
                   p1, p2, eCh2, order, toTarget, toClient, clientWr, assocVars>>

ConnectWait2 ==
    /\ pc = "c_wait"
    /\ Len(eCh2.buf) > 0
    /\ ret' = Head(eCh2.buf)
    /\ eCh2' = [eCh2 EXCEPT !.buf = Tail(@)]
    /\ got' = Append(got, "eCh2")
    /\ target' = ConnectDeferredClose(target)
    /\ pc' = "done"
    /\ UNCHANGED <<wire, call, cfg, stream, req, reqErr, trace, replies, bindLn, outstanding,
                   p1, p2, eCh1, order, toTarget, toClient, clientWr, assocVars>>

\* -------------------------------------------------------------------- Proxy
\* Lines 376-382 once io.CopyBuffer has returned err: CloseWrite on a
\* destination that has one, the buffer back to the pool, the result.
\* Proxy(target, request.Reader), submitted at line 160.
P1Start ==
    /\ p1.pc = "start"
    /\ p1' = [p1 EXCEPT !.pc = "read"]
    /\ outstanding' = outstanding + 1
    /\ UNCHANGED <<pipeVars, target, bindLn, p2, eCh1, eCh2, got, order, toTarget, toClient, clientWr, assocVars>>

\* io.CopyBuffer, line 378, a round's src.Read: the task takes a chunk
\* the client sent.
P1Read ==
    /\ p1.pc = "read"
    /\ req.Reader = "bufConn"
    /\ stream.st # "closed"
    /\ stream.avail > 0
    /\ stream' = [stream EXCEPT !.avail = @ - 1]
    /\ p1' = [p1 EXCEPT !.pc = "write"]
    /\ UNCHANGED <<wire, call, cfg, req, reqErr, pc, ret, trace, replies, sockVars,
                   p2, eCh1, eCh2, got, order, toTarget, toClient, clientWr, assocVars>>

\* io.CopyBuffer, line 378, a round's dst.Write: the chunk read goes to the
\* target, whatever has happened to the control connection since the read.
P1Write ==
    /\ p1.pc = "write"
    /\ target.st = "open"
    /\ toTarget' = toTarget + 1
    /\ p1' = [p1 EXCEPT !.pc = "read"]
    /\ UNCHANGED <<wire, call, cfg, stream, req, reqErr, pc, ret, trace, replies, sockVars,
                   p2, eCh1, eCh2, got, order, toClient, clientWr, assocVars>>

\* What io.CopyBuffer returns: the error of the Write it is in (the target
\* was closed), or of the Read it is in: the closed control connection, or
\* nil at the client's EOF.
P1CopyResult ==
    IF p1.pc = "write" THEN "write error"
    ELSE IF stream.st = "closed" THEN "use of closed network connection"
    ELSE "nil"

\* io.CopyBuffer of Proxy(target, req.bufConn) returns; line 379 half-closes
\* the dialed connection only when it has a CloseWrite method, which depends
\* on the dial function in use (hasCloseWrite; asked once per connection).
P1Finish ==
    /\ \/ p1.pc = "read" /\ stream.st = "closed"
       \/ p1.pc = "read" /\ stream.avail = 0 /\ stream.st = "eof"
       \/ p1.pc = "write" /\ target.st = "closed"
    /\ p1' = [pc |-> "send", res |-> P1CopyResult]
    /\ \E hasCloseWrite \in BOOLEAN :
          target' = IF target.st = "open" /\ target.kind = "tcp" /\ hasCloseWrite
                    THEN [target EXCEPT !.wr = TRUE] ELSE target
    /\ outstanding' = outstanding - 1
    /\ UNCHANGED <<wire, call, cfg, stream, req, reqErr, pc, ret, trace, replies, bindLn,
                   p2, eCh1, eCh2, got, order, toTarget, toClient, clientWr, assocVars>>

\* eCh1 <- result, line 160: possible while the channel has room.
P1Send ==
    /\ p1.pc = "send"
    /\ Len(eCh1.buf) < eCh1.cap
    /\ eCh1' = [eCh1 EXCEPT !.buf = Append(@, p1.res)]
    /\ p1' = [p1 EXCEPT !.pc = "done"]
    /\ order' = Append(order, "eCh1")
    /\ UNCHANGED <<pipeVars, sockVars, p2, eCh2, got, toTarget, toClient, clientWr, assocVars>>

\* Proxy(writer, target), submitted at line 161.
P2Start ==
    /\ p2.pc = "start"
    /\ p2' = [p2 EXCEPT !.pc = "read"]
    /\ outstanding' = outstanding + 1
    /\ UNCHANGED <<pipeVars, target, bindLn, p1, eCh1, eCh2, got, order, toTarget, toClient, clientWr, assocVars>>

\* io.CopyBuffer, line 378, a round's src.Read: the task takes a chunk
\* the destination sent.
P2Read ==
    /\ p2.pc = "read"
    /\ target.st = "open"
    /\ target.tin > 0
    /\ target' = [target EXCEPT !.tin = @ - 1]
    /\ p2' = [p2 EXCEPT !.pc = "write"]
    /\ UNCHANGED <<pipeVars, bindLn, outstanding, p1, eCh1, eCh2, got, order, toTarget,
                   toClient, clientWr, assocVars>>

\* io.CopyBuffer, line 378, a round's dst.Write: the chunk read goes to the
\* client, whatever has happened to the target since the read.
P2Write ==
    /\ p2.pc = "write"
    /\ toClient' = toClient + 1
    /\ p2' = [p2 EXCEPT !.pc = "read"]
    /\ UNCHANGED <<pipeVars, sockVars, p1, eCh1, eCh2, got, order, toTarget, clientWr,
                   assocVars>>

\* What io.CopyBuffer returns: the error of the Write it is in (the client
\* does not take the chunk), or of the Read it is in: the closed target, or
\* nil at the destination's EOF.
P2CopyResult ==
    IF p2.pc = "write" THEN "write error"
    ELSE IF target.st = "closed" THEN "use of closed network connection"
    ELSE "nil"

\* io.CopyBuffer of Proxy(writer, target) returns; line 379 half-closes the
\* writer only when it has a CloseWrite method, which depends on the writer
\* handed to handleRequest (hasCloseWrite; asked once per session).
P2Finish ==
    /\ \/ p2.pc = "read" /\ target.st = "closed"
       \/ p2.pc = "read" /\ target.st = "open" /\ target.tin = 0 /\ target.remote = "eof"
       \/ p2.pc = "write"
    /\ p2' = [pc |-> "send", res |-> P2CopyResult]
    /\ \E hasCloseWrite \in BOOLEAN :
          clientWr' = IF hasCloseWrite THEN TRUE ELSE clientWr
    /\ outstanding' = outstanding - 1
    /\ UNCHANGED <<pipeVars, target, bindLn, p1, eCh1, eCh2, got, order, toTarget, toClient,
                   assocVars>>

P2Send ==
    /\ p2.pc = "send"
    /\ Len(eCh2.buf) < eCh2.cap
    /\ eCh2' = [eCh2 EXCEPT !.buf = Append(@, p2.res)]
    /\ p2' = [p2 EXCEPT !.pc = "done"]
    /\ order' = Append(order, "eCh2")
    /\ UNCHANGED <<pipeVars, sockVars, p1, eCh1, got, toTarget, toClient, clientWr, assocVars>>

\* ---------------------------------------------------------- handleAssociate
\* Lines 188-201: the dial fails; one reply, then the error.
AssocDialFail ==
    /\ pc = "a_dial"
    /\ \E msg \in DialErrors, wok \in BOOLEAN :
        LET r == SendReply(req.Header, AssociateDialReply(msg), << >>, wok) IN
        /\ replies' = Append(replies, r)
        /\ ret' = AfterReply(r, "connect failed")
        /\ trace' = Append(trace, DialEvent("udp", DestVal, msg))
    /\ pc' = "done"
    /\ UNCHANGED <<wire, call, cfg, stream, req, reqErr, sockVars, connVars, assocVars>>

\* Lines 188, 202, 204-210: the dialed connection is not a *net.UDPConn.
AssocDialNotUDP ==
    /\ pc = "a_dial"
    /\ \E wok \in BOOLEAN :
        LET r == SendReply(req.Header, RepServerFailure, << >>, wok) IN
        /\ replies' = Append(replies, r)
        /\ ret' = AfterReply(r, "dial udp invalid")
    /\ trace' = Append(trace, DialEvent("udp", DestVal, << >>))
    /\ target' = [NoTarget EXCEPT !.st = "closed", !.kind = "other"]
    /\ pc' = "done"
    /\ UNCHANGED <<wire, call, cfg, stream, req, reqErr, bindLn, outstanding, connVars, assocVars>>

\* Lines 188, 202, 204: the dial yields a UDP socket.
AssocDialOk ==
    /\ pc = "a_dial"
    /\ target' = [NoTarget EXCEPT !.st = "open", !.kind = "udp",
                                  !.local = NetAddr("udp", IPv4Local, 50000)]
    /\ trace' = Append(trace, DialEvent("udp", DestVal, << >>))
    /\ pc' = "a_listen"
    /\ UNCHANGED <<wire, call, cfg, stream, req, reqErr, ret, replies, bindLn, outstanding,
                   connVars, assocVars>>

\* Lines 212-218: net.ListenUDP fails; the deferred target.Close() runs.
AssocListenFail ==
    /\ pc = "a_listen"
    /\ \E wok \in BOOLEAN :
        LET r == SendReply(req.Header, RepServerFailure, << >>, wok) IN
        /\ replies' = Append(replies, r)
        /\ ret' = AfterReply(r, "listen udp failed")
    /\ trace' = Append(trace, Event("listen:udp", ZeroSpec))
    /\ target' = [target EXCEPT !.st = "closed"]
    /\ pc' = "done"
    /\ UNCHANGED <<wire, call, cfg, stream, req, reqErr, bindLn, outstanding, connVars, assocVars>>

\* Lines 212, 219.
AssocListenOk ==
    /\ pc = "a_listen"
    /\ bindLn' = "open"
    /\ trace' = Append(trace, Event("listen:udp", ZeroSpec))
    /\ pc' = "a_reply"
    /\ UNCHANGED <<wire, call, cfg, stream, req, reqErr, ret, replies, target, outstanding,
                   connVars, assocVars>>

\* Lines 222-225: the Success reply with the bind socket's address; on
\* failure the handler returns, and its deferred closes run one after the
\* other (HandlerCloseBind, HandlerCloseTarget).
AssocReply ==
    /\ pc = "a_reply"
    /\ \E wok \in BOOLEAN :
        LET r == SendReply(req.Header, RepSuccess, <<BindLocalAddr>>, wok)
            to == AfterSuccess(r, "a_submit")
        IN
        /\ replies' = Append(replies, r)
        /\ pc' = IF to = "done" THEN "a_closeBind" ELSE to
        /\ ret' = IF to = "done" THEN "failed to send reply" ELSE ret
    /\ UNCHANGED <<wire, call, cfg, stream, req, reqErr, trace, sockVars, connVars, assocVars>>

\* Lines 227 and 303: the forwarding task is submitted, the foreground
\* takes its buffer.
AssocSubmit ==
    /\ pc = "a_submit"
    /\ fwd' = [fwd EXCEPT !.pc = "start"]
    /\ outstanding' = outstanding + 1
    /\ pc' = "a_read"
    /\ UNCHANGED <<wire, call, cfg, stream, req, reqErr, ret, trace, replies, target, bindLn,
                   connVars, conns, rt, spawned, dgrams, destWrites, bindWrites, eofReads>>

\* Line 310: the read errors on which the foreground returns.
ReadReturns(err) == Contains(err, PatClosedConn)

\* The error a read of the control stream returns now ("" while data or
\* nothing is there).
StreamReadErr ==
    IF stream.st = "closed" THEN ErrClosed
    ELSE IF stream.avail = 0 /\ stream.st = "eof" THEN ErrEOF
    ELSE << >>

\* Lines 307-314, a read that returns data: it is discarded.
ForegroundDiscard ==
    /\ pc = "a_read"
    /\ req.Reader = "bufConn"
    /\ StreamReadErr = << >>
    /\ stream.avail > 0
    /\ stream' = [stream EXCEPT !.avail = @ - 1]
    /\ UNCHANGED <<wire, call, cfg, req, reqErr, pc, ret, trace, replies, sockVars, connVars, assocVars>>

\* Lines 307-314, a failing read: the handler returns the error when
\* ReadReturns (line 311), and reads again otherwise.  The deferred calls
\* then run in the reverse of their registration: the Put of lines 304-306,
\* which is part of this step (the pool is shared with no task's reads or
\* writes), then bindLn.Close() of line 219 and target.Close() of line 202,
\* each a step of its own, with the tasks running in between.
ForegroundReadFails ==
    /\ pc = "a_read"
    /\ req.Reader = "bufConn"
    /\ StreamReadErr # << >>
    /\ IF ReadReturns(StreamReadErr)
       THEN /\ ret' = "use of closed network connection"
            /\ pc' = "a_closeBind"
            /\ outstanding' = outstanding - 1
            /\ UNCHANGED eofReads
       ELSE /\ eofReads' = ~eofReads
            /\ UNCHANGED <<pc, ret, outstanding>>
    /\ UNCHANGED <<wire, call, cfg, stream, req, reqErr, trace, replies, target, bindLn, connVars,
                   fwd, conns, rt, spawned, dgrams, destWrites, bindWrites>>

\* Line 219, deferred: bindLn.Close().
HandlerCloseBind ==
    /\ pc = "a_closeBind"
    /\ bindLn' = "closed"
    /\ pc' = "a_closeTarget"
    /\ UNCHANGED <<wire, call, cfg, stream, req, reqErr, ret, trace, replies, target, outstanding,
                   connVars, assocVars>>

\* Line 202, deferred: target.Close(); the handler has returned.
HandlerCloseTarget ==
    /\ pc = "a_closeTarget"
    /\ target' = [target EXCEPT !.st = "closed"]
    /\ pc' = "done"
    /\ UNCHANGED <<wire, call, cfg, stream, req, reqErr, ret, trace, replies, bindLn, outstanding,
                   connVars, assocVars>>

\* ------------------------------------------------------ the forwarding task
\* Lines 237-238.
FwdStart ==
    /\ fwd.pc = "start"
    /\ fwd' = [fwd EXCEPT !.pc = "read"]
    /\ conns' = {}
    /\ outstanding' = outstanding + 1
    /\ UNCHANGED <<pipeVars, target, bindLn, connVars, rt, spawned, dgrams, destWrites,
                   bindWrites, eofReads>>

\* A check-and-insert that never finds the key.
LoadOrStoreNeverLoaded(m, key) == [loaded |-> FALSE, m |-> m \cup {key}]

\* sync.Map.LoadOrStore, line 259: whether the key was there, and the map after.
LoadOrStore(m, key) == [loaded |-> key \in m, m |-> m \cup {key}]

\* A forwarding task that stops at a frame it cannot parse.
AfterMalformedStops == "done"

\* Line 256: after a frame that does not parse the loop continues with the
\* next read.
AfterMalformed == "read"

\* Lines 245, 254-257: a datagram that does not parse is skipped.
FwdReadMalformed ==
    /\ fwd.pc = "read"
    /\ bindLn = "open"
    /\ Len(dgrams) < MaxDatagrams
    /\ \E a \in Sources :
        dgrams' = Append(dgrams, [src |-> a, wf |-> FALSE, data |-> 0])
    /\ fwd' = [fwd EXCEPT !.pc = AfterMalformed]
    /\ UNCHANGED <<pipeVars, sockVars, connVars, conns, rt, spawned, destWrites,
                   bindWrites, eofReads>>

\* Lines 245, 254-293: a well-formed frame; the first one of its source
\* submits the source's return-path task.
FwdRead ==
    /\ fwd.pc = "read"
    /\ bindLn = "open"
    /\ Len(dgrams) < MaxDatagrams
    /\ \E a \in Sources, d \in Data :
        LET ls == LoadOrStore(conns, a) IN
        /\ d = Len(dgrams) + 1
        /\ dgrams' = Append(dgrams, [src |-> a, wf |-> TRUE, data |-> d])
        /\ conns' = ls.m
        /\ IF ~ls.loaded
           THEN /\ rt' = [rt EXCEPT ![a] = [pc |-> "start", data |-> 0]]
                /\ spawned' = [spawned EXCEPT ![a] = @ + 1]
           ELSE UNCHANGED <<rt, spawned>>
        /\ fwd' = [pc |-> "write", src |-> a, data |-> d]
    /\ UNCHANGED <<pipeVars, sockVars, connVars, destWrites, bindWrites, eofReads>>

\* A write that sends the payload twice.
WriteToTargetTwice(w, d) == Append(Append(w, d), d)

\* targetUDP.Write(pk.Data), line 296: one datagram with the frame's DATA.
WriteToTarget(w, d) == Append(w, d)

\* Lines 296-299: the payload is written to the destination.
FwdWrite ==
    /\ fwd.pc = "write"
    /\ target.st = "open"
    /\ destWrites' = WriteToTarget(destWrites, fwd.data)
    /\ fwd' = [pc |-> "read", src |-> "", data |-> 0]
    /\ UNCHANGED <<pipeVars, sockVars, connVars, conns, rt, spawned, dgrams, bindWrites,
                   eofReads>>

\* A deferred function that leaves the socket as it found it.
CloseSocketForgotten(st) == st

\* targetUDP.Close() and bindLn.Close() in the deferred functions of the
\* tasks, lines 240-241 and 264-265: the socket is closed, whether or not
\* it was closed before.
CloseSocket(st) == "closed"

\* The error bindLn.ReadFrom returns now (none while the socket is open).
BindReadErr ==
    IF bindLn = "closed"
    THEN <<"read", "udp", "use", "of", "closed", "network", "connection">>
    ELSE << >>

\* A forwarding task that takes only an end of file for the end.
FwdReadReturnsOnEOF(err) == Contains(err, <<"EOF">>)

\* Line 247: the read errors on which the forwarding task returns.
FwdReadReturns(err) == Contains(err, PatClosedConn)

\* Lines 245-250 and 296-299: the read of a closed bind socket, or a write
\* that fails (the destination socket closed, or any other error), ends the
\* loop, and the deferred function of lines 239-243 starts with
\* targetUDP.Close() (line 240).  Its other two calls are steps of their
\* own (FwdCloseBind, FwdPut), with the other tasks running in between.
FwdExit ==
    /\ \/ fwd.pc = "read" /\ BindReadErr # << >> /\ FwdReadReturns(BindReadErr)
       \/ fwd.pc = "write"
    /\ target' = [target EXCEPT !.st = CloseSocket(@)]
    /\ fwd' = [pc |-> "closeBind", src |-> "", data |-> 0]
    /\ UNCHANGED <<pipeVars, bindLn, outstanding, connVars, conns, rt, spawned, dgrams,
                   destWrites, bindWrites, eofReads>>

\* Line 241, deferred: bindLn.Close().  The task still holds its buffer.
FwdCloseBind ==
    /\ fwd.pc = "closeBind"
    /\ bindLn' = CloseSocket(bindLn)
    /\ fwd' = [fwd EXCEPT !.pc = "put"]
    /\ UNCHANGED <<pipeVars, target, outstanding, connVars, conns, rt, spawned, dgrams,
                   destWrites, bindWrites, eofReads>>

\* Line 242, deferred: the task's buffer goes back to the pool; the task
\* has returned.
FwdPut ==
    /\ fwd.pc = "put"
    /\ outstanding' = outstanding - 1
    /\ fwd' = [fwd EXCEPT !.pc = "done"]
    /\ UNCHANGED <<pipeVars, target, bindLn, connVars, conns, rt, spawned, dgrams,
                   destWrites, bindWrites, eofReads>>

\* ------------------------------------------------------ the return-path tasks
\* Line 262.
RetStart(a) ==
    /\ rt[a].pc = "start"
    /\ rt' = [rt EXCEPT ![a].pc = "read"]
    /\ outstanding' = outstanding + 1
    /\ UNCHANGED <<pipeVars, target, bindLn, connVars, fwd, conns, spawned, dgrams,
                   destWrites, bindWrites, eofReads>>

\* Lines 270-284: a datagram of the destination is read and framed in a
\* second buffer.
RetRead(a) ==
    /\ rt[a].pc = "read"
    /\ target.st = "open"
    /\ target.tin > 0
    /\ target' = [target EXCEPT !.tin = @ - 1]
    /\ rt' = [rt EXCEPT ![a] = [pc |-> "write", data |-> target.sentIn - target.tin + 1]]
    /\ outstanding' = outstanding + 1
    /\ UNCHANGED <<pipeVars, bindLn, connVars, fwd, conns, spawned, dgrams,
                   destWrites, bindWrites, eofReads>>

\* Lines 271, 277-280: NewPacket rejects the datagram read; it is dropped
\* and the loop goes on to the next read, with no second buffer taken.
RetReadRejected(a) ==
    /\ rt[a].pc = "read"
    /\ target.st = "open"
    /\ target.tin > 0
    /\ target' = [target EXCEPT !.tin = @ - 1]
    /\ UNCHANGED <<pipeVars, bindLn, outstanding, connVars, assocVars>>

\* Lines 285, 290: the frame is written to the bind socket for the task's
\* source address.
RetWrite(a) ==
    /\ rt[a].pc = "write"
    /\ bindLn = "open"
    /\ bindWrites' = Append(bindWrites, [to |-> a, data |-> rt[a].data])
    /\ rt' = [rt EXCEPT ![a] = [pc |-> "read", data |-> 0]]
    /\ outstanding' = outstanding - 1
    /\ UNCHANGED <<pipeVars, target, bindLn, connVars, fwd, conns, spawned, dgrams,
                   destWrites, eofReads>>

\* A return-path task that keeps the framing buffer when its write fails.
RetExitPutsNone(at) == 0

\* The buffers a return-path task returns before it leaves its loop: the
\* framing buffer when the write failed (line 286), none when the read
\* failed.
RetExitPuts(at) == IF at = "write" THEN 1 ELSE 0

\* Lines 271-275 and 285-289: a read or a write that fails ends the loop,
\* whatever the error: the socket was closed, or it is open and the call
\* fails otherwise (a refused read on the connected socket, a frame too
\* long to write).  The deferred function of lines 263-267 starts with
\* targetUDP.Close() (line 264); its other two calls are steps of their
\* own (RetCloseBind, RetPut), with the other tasks running in between.
RetExit(a) ==
    /\ rt[a].pc \in {"read", "write"}
    /\ outstanding' = outstanding - RetExitPuts(rt[a].pc)
    /\ target' = [target EXCEPT !.st = CloseSocket(@)]
    /\ rt' = [rt EXCEPT ![a] = [pc |-> "closeBind", data |-> 0]]
    /\ UNCHANGED <<pipeVars, bindLn, connVars, fwd, conns, spawned, dgrams,
                   destWrites, bindWrites, eofReads>>

\* Line 265, deferred: bindLn.Close().  The task still holds its buffer.
RetCloseBind(a) ==
    /\ rt[a].pc = "closeBind"
    /\ bindLn' = CloseSocket(bindLn)
    /\ rt' = [rt EXCEPT ![a].pc = "put"]
    /\ UNCHANGED <<pipeVars, target, outstanding, connVars, fwd, conns, spawned, dgrams,
                   destWrites, bindWrites, eofReads>>

\* Line 266, deferred: the task's buffer goes back to the pool; the task
\* has returned.
RetPut(a) ==
    /\ rt[a].pc = "put"
    /\ outstanding' = outstanding - 1
    /\ rt' = [rt EXCEPT ![a].pc = "done"]
    /\ UNCHANGED <<pipeVars, target, bindLn, connVars, fwd, conns, spawned, dgrams,
                   destWrites, bindWrites, eofReads>>

\* --------------------------------------------------------------------- Next
Next ==
    \/ NewRequest
    \/ ResolveSkip
    \/ ResolveFail
    \/ ResolveOk
    \/ Rewrite
    \/ AllowDenied
    \/ AllowOk
    \/ Dispatch
    \/ ClientSends
    \/ ClientCloses
    \/ LocalCloses
    \/ DestSends
    \/ DestCloses
    \/ ConnectDialFail
    \/ ConnectDialOk
    \/ ConnectReply
    \/ ConnectSubmit1
    \/ ConnectSubmit2
    \/ ConnectWait1
    \/ ConnectWait2
    \/ P1Start
    \/ P1Read
    \/ P1Write
    \/ P1Finish
    \/ P1Send
    \/ P2Start
    \/ P2Read
    \/ P2Write
    \/ P2Finish
    \/ P2Send
    \/ AssocDialFail
    \/ AssocDialNotUDP
    \/ AssocDialOk
    \/ AssocListenFail
    \/ AssocListenOk
    \/ AssocReply
    \/ AssocSubmit
    \/ ForegroundDiscard
    \/ ForegroundReadFails
    \/ HandlerCloseBind
    \/ HandlerCloseTarget
    \/ FwdStart
    \/ FwdReadMalformed
    \/ FwdRead
    \/ FwdWrite
    \/ FwdExit
    \/ FwdCloseBind
    \/ FwdPut
    \/ \E a \in Sources : RetStart(a)
    \/ \E a \in Sources : RetRead(a)
    \/ \E a \in Sources : RetReadRejected(a)
    \/ \E a \in Sources : RetWrite(a)
    \/ \E a \in Sources : RetExit(a)
    \/ \E a \in Sources : RetCloseBind(a)
    \/ \E a \in Sources : RetPut(a)

Spec == Init /\ [][Next]_vars

\* ------------------------------------------- one ASSOCIATE session on its own
\* An ASSOCIATE request for an IPv4 destination on a Server with the
\* built-in handlers and no rewriter: what comes ahead of handleAssociate
\* has no part in the lifetime of the session's tasks.
AssocInit ==
    /\ Init
    /\ wire = [ok |-> TRUE, cmd |-> CommandAssociate, atyp |-> ATYPIPv4,
               addr |-> AddrSpec("", IPv4Dest, 80)]
    /\ cfg = [rewriter |-> FALSE, user |-> {}]

\* The steps such a request and its session can take.
AssocNext ==
    \/ NewRequest
    \/ ResolveSkip
    \/ Rewrite
    \/ AllowDenied
    \/ AllowOk
    \/ Dispatch
    \/ ClientSends
    \/ ClientCloses
    \/ LocalCloses
    \/ DestSends
    \/ AssocDialFail
    \/ AssocDialNotUDP
    \/ AssocDialOk
    \/ AssocListenFail
    \/ AssocListenOk
    \/ AssocReply
    \/ AssocSubmit
    \/ ForegroundDiscard
    \/ ForegroundReadFails
    \/ HandlerCloseBind
    \/ HandlerCloseTarget
    \/ FwdStart
    \/ FwdReadMalformed
    \/ FwdRead
    \/ FwdWrite
    \/ FwdExit
    \/ FwdCloseBind
    \/ FwdPut
    \/ \E a \in Sources : RetStart(a)
    \/ \E a \in Sources : RetRead(a)
    \/ \E a \in Sources : RetReadRejected(a)
    \/ \E a \in Sources : RetWrite(a)
    \/ \E a \in Sources : RetExit(a)
    \/ \E a \in Sources : RetCloseBind(a)
    \/ \E a \in Sources : RetPut(a)

AssocSpec == AssocInit /\ [][AssocNext]_vars

\* A return-path task's call comes back with an error for sure: a write
\* (it returns either way), or a read of the closed destination socket.
RetCallReturns(a) == rt[a].pc = "write" \/ target.st = "closed"

\* The next step of the handler's foreground, of the forwarding task and of
\* a return-path task: at each position one kind of step is possible.
HandlerStep ==
    ForegroundReadFails \/ ForegroundDiscard \/ HandlerCloseBind \/ HandlerCloseTarget
FwdStep == FwdStart \/ FwdWrite \/ FwdExit \/ FwdCloseBind \/ FwdPut
RetStep(a) ==
    \/ RetStart(a)
    \/ RetWrite(a)
    \/ RetCallReturns(a) /\ RetExit(a)
    \/ RetCloseBind(a)
    \/ RetPut(a)

\* A step of one of the session's tasks.
TaskStep == FwdStep \/ \E a \in Sources : RetStep(a)

\* Goroutines that are runnable are eventually run, a call that can return
\* does return, and deferred calls that have started run to their end.  A
\* read of an open socket need never return.  A task's step, once it is
\* possible, stays possible until the task takes it, so fairness to the
\* tasks taken together asks no more than fairness to each of them.
FairSpec ==
    /\ AssocSpec
    /\ WF_vars(HandlerStep)
    /\ WF_vars(TaskStep)

\* ------------------------------------------------- SendReply on its own
\* The reply codes a caller may pass.
ReplyCodes ==
    { RepSuccess, RepServerFailure, RepRuleFailure, RepNetworkUnreachable,
      RepHostUnreachable, RepConnectionRefused, RepCommandNotSupported }

\* The net.Addr values a caller may pass: TCP and UDP addresses of every
\* IP shape, an address of another type, and a nil *net.TCPAddr.
ReplyAddrs ==
    { NetAddr("tcp", IPv4Local, 55001),
      NetAddr("tcp", IPv4Mapped, 55001),
      NetAddr("tcp", IPv6Local, 55001),
      NetAddr("tcp", NilIP, 55001),
      NetAddr("tcp", IPBadLen, 55001),
      NetAddr("udp", IPv4Local, 40000),
      NetAddr("udp", IPv6Unspecified, 40000),
      NetAddr("udp", IPBadLen, 40000),
      NetAddr("other", NilIP, 0),
      NetAddr("niltcp", NilIP, 0) }

\* The variadic argument: absent, or one address.
BindAddrArgs == { << >> } \cup { <<a>> : a \in ReplyAddrs }

\* SendReply(w, head, resp, bindAddr...) called with the header of a
\* parsed request.
SendReplyCall ==
    /\ call.st = "none"
    /\ pc = "new"
    /\ wire.ok
    /\ \E resp \in ReplyCodes, ba \in BindAddrArgs, wok \in BOOLEAN :
        call' = [st |-> "done", head |-> Parse(wire).hd, resp |-> resp,
                 bindAddr |-> ba, wok |-> wok,
                 r |-> SendReply(Parse(wire).hd, resp, ba, wok)]
    /\ UNCHANGED <<wire, cfg, stream, req, reqErr, pc, ret, trace, replies,
                   sockVars, connVars, assocVars>>

ReplySpec == Init /\ [][SendReplyCall]_vars

\* =================================================================== claims
TraceIdx(names) == { i \in 1 .. Len(trace) : trace[i].ev \in names }

DialEvents == {"dial:tcp", "dial:udp"}
BuiltinEvents == {"handleConnect", "handleBind", "handleAssociate", "default"}
UserEvents == {"userConnect", "userBind", "userAssociate"}
HandlerEvents == BuiltinEvents \cup UserEvents

IsError(e) == e \notin {"none", "nil"}

\* No socket was opened and no task was submitted.
NothingStarted ==
    /\ target.st = "none"
    /\ bindLn = "none"
    /\ p1.pc = "idle"
    /\ p2.pc = "idle"
    /\ fwd.pc = "idle"
    /\ \A a \in Sources : rt[a].pc = "idle"

Denied == \E i \in TraceIdx({"allow"}) : trace[i].err # << >>

\* C1: when the rule check denies a request, exactly one reply, of status
\* RuleFailure, is handed to the client writer, handleRequest returns a
\* non-nil error, and no dial and no command handler, built-in or user
\* supplied, is invoked, whatever the command.
C1_RuleDenial ==
    Denied =>
        /\ Len(replies) = 1
        /\ replies[1].status = RepRuleFailure
        /\ replies[1].out \in {"ok", "werr"}
        /\ pc = "done"
        /\ IsError(ret)
        /\ TraceIdx(DialEvents \cup HandlerEvents \cup {"listen:udp"}) = {}
        /\ trace[Len(trace)].ev = "allow"
        /\ NothingStarted

C1_Witness ==
    /\ Denied
    /\ req.Command = CommandAssociate
    /\ cfg.user = {}
    /\ replies[1].out = "ok"
    /\ pc = "done"

\* The classification of a dial error that the claim states.
ExpectedDialReply(msg) ==
    IF Contains(msg, <<"refused">>) THEN "ConnectionRefused"
    ELSE IF Contains(msg, <<"network", "is", "unreachable">>) THEN "NetworkUnreachable"
    ELSE "HostUnreachable"

\* C2: after a dial error, in handleConnect and in handleAssociate alike,
\* the one reply sent is ConnectionRefused when the error text contains
\* "refused", else NetworkUnreachable when it contains "network is
\* unreachable", else HostUnreachable; the dial was attempted once, and
\* the handler has returned a non-nil error.
C2_DialErrorReply ==
    /\ Cardinality(TraceIdx(DialEvents)) <= 1
    /\ \A i \in TraceIdx(DialEvents) :
          trace[i].err # << >> =>
              /\ i = Len(trace)
              /\ Len(replies) = 1
              /\ replies[1].status = ExpectedDialReply(trace[i].err)
              /\ replies[1].out \in {"ok", "werr"}
              /\ pc = "done"
              /\ IsError(ret)
              /\ NothingStarted

C2_Witness ==
    /\ Len(trace) > 0
    /\ trace[Len(trace)].ev = "dial:udp"
    /\ trace[Len(trace)].err = <<"refused", "network", "is", "unreachable">>
    /\ replies[1].status = RepConnectionRefused
    /\ pc = "done"

\* The request is being handled by a built-in handler or by the pipeline.
BuiltinRun == TraceIdx(UserEvents) = {}

RelayStarted ==
    \/ p1.pc # "idle"
    \/ p2.pc # "idle"
    \/ fwd.pc # "idle"
    \/ pc \in {"c_submit1", "c_submit2", "c_wait", "a_submit", "a_read"}

\* A SendReply call that handed a frame to the client writer.
FrameAttempted(r) == r.out \in {"ok", "werr"}

\* A net.Addr of TCP or UDP type whose IP has no 4-byte and no 16-byte form.
Unformattable(a) ==
    /\ a.kind \in {"tcp", "udp"}
    /\ Len(a.IP) \notin {4, 16}

\* C3 as stated: with the built-in handlers, every execution of
\* handleRequest has attempted exactly one reply frame on the client writer
\* by the time it returns.
C3_OneFrameAttempted ==
    BuiltinRun /\ pc = "done" =>
        Cardinality({ i \in 1 .. Len(replies) : FrameAttempted(replies[i]) }) = 1

\* C3, amended: with the built-in handlers, handleRequest calls SendReply
\* at most once while it runs and exactly once by the time it has
\* returned, and the call hands one frame to the client writer, except
\* that the Success reply of CONNECT writes nothing when the target's
\* local address cannot be formatted (the handler then returns an error);
\* a failure before relaying (resolve failure, rule denial, dial failure,
\* non-UDP connection, listen failure) leaves one failure reply and a
\* non-nil error, and once the relay has started the one reply is the
\* Success reply and none is ever added.
C3_OneReply ==
    BuiltinRun =>
        /\ Len(replies) <= 1
        /\ (pc = "done" => Len(replies) = 1)
        /\ \A i \in 1 .. Len(replies) :
              \/ FrameAttempted(replies[i])
              \/ /\ req.Command = CommandConnect
                 /\ replies[i].status = RepSuccess
                 /\ Unformattable(target.local)
                 /\ pc = "done"
                 /\ IsError(ret)
                 /\ ~RelayStarted
        /\ (pc = "done" /\ replies[1].status # RepSuccess /\ req.Command # CommandBind
                => IsError(ret) /\ ~RelayStarted)
        /\ (RelayStarted =>
                /\ Len(replies) = 1
                /\ replies[1].status = RepSuccess
                /\ replies[1].out = "ok")

C3_Witness ==
    /\ BuiltinRun
    /\ pc = "done"
    /\ fwd.pc = "done"
    /\ Len(destWrites) > 0
    /\ Len(replies) = 1
    /\ replies[1].status = RepSuccess

\* C4: once reads of the request stream fail because the control
\* connection has ended, handleAssociate eventually returns, and both the
\* bind socket and the destination socket are then closed.
C4_ReturnsOnceStreamEnded ==
    (pc = "a_read" /\ stream.st \in {"eof", "closed"})
        ~> (pc = "done" /\ IsError(ret) /\ target.st = "closed" /\ bindLn = "closed")

\* The source addresses whose well-formed frames the forwarding task has read.
WfSources == { dgrams[i].src : i \in { j \in 1 .. Len(dgrams) : dgrams[j].wf } }

SpawnedTotal == spawned["10.0.0.1:5000"] + spawned["10.0.0.2:5000"]

\* C5: in one ASSOCIATE session at most one return-path task is submitted
\* per source address; the tasks submitted are exactly one for each source
\* that has sent a well-formed frame; and every source that was entered in
\* the session table is still in it.
C5_OneReturnTaskPerSource ==
    /\ \A a \in Sources : spawned[a] <= 1
    /\ \A a \in Sources : (spawned[a] = 1) <=> (a \in WfSources)
    /\ \A a \in Sources : (rt[a].pc # "idle") <=> (a \in WfSources)
    /\ SpawnedTotal = Cardinality(WfSources)
    /\ fwd.pc \notin {"idle", "start"} => conns = WfSources

C5_Witness ==
    /\ Len(dgrams) = 2
    /\ dgrams[1].wf
    /\ dgrams[2].wf
    /\ dgrams[1].src = dgrams[2].src
    /\ spawned[dgrams[1].src] = 1
    /\ Len(destWrites) = 2

\* The reply frame that announces the address a.
AnnouncesAddr(r, a) ==
    IF a.kind \in {"tcp", "udp"}
    THEN r.head.Address.IP \in {a.IP, To4(a.IP)} /\ r.head.Address.Port = a.Port
    ELSE r.head.Address.IP = <<0, 0, 0, 0>> /\ r.head.Address.Port = 0

ConnectRelaying ==
    \/ pc \in {"c_submit1", "c_submit2", "c_wait"}
    \/ p1.pc # "idle"
    \/ p2.pc # "idle"

\* C6 as stated: handleConnect returns the result of the direction that
\* terminated first.
C6_ReturnsFirstTerminated ==
    Len(got) = 1 => got[1] = order[1]

\* C6, amended: the Success reply with the target's local address is
\* written before either relay task is submitted; the handler returns only
\* after a direction has delivered its result, receives exactly one result
\* and returns it (with both delivered before the select runs, either of
\* them); and a task that is about to send always finds its channel's one
\* slot free.
C6_ReturnsOneTerminated ==
    /\ ConnectRelaying =>
          /\ Len(replies) = 1
          /\ replies[1].status = RepSuccess
          /\ replies[1].out = "ok"
          /\ AnnouncesAddr(replies[1], target.local)
    /\ Len(eCh1.buf) <= 1
    /\ Len(eCh2.buf) <= 1
    /\ (p1.pc = "send" => Len(eCh1.buf) < eCh1.cap)
    /\ (p2.pc = "send" => Len(eCh2.buf) < eCh2.cap)
    /\ Len(got) <= 1
    /\ (pc = "c_wait" => got = << >> /\ ret = "none")
    /\ (pc = "done" /\ ConnectRelaying => Len(got) = 1)
    /\ (got = <<"eCh1">> => pc = "done" /\ p1.pc = "done" /\ ret = p1.res)
    /\ (got = <<"eCh2">> => pc = "done" /\ p2.pc = "done" /\ ret = p2.res)
    /\ \A i \in 1 .. Len(got) : \E j \in 1 .. Len(order) : order[j] = got[i]

C6_Witness ==
    /\ pc = "done"
    /\ got = <<"eCh2">>
    /\ order = <<"eCh2", "eCh1">>
    /\ p1.pc = "done"
    /\ toTarget > 0
    /\ toClient > 0

ResolveFailed == \E i \in TraceIdx({"resolve"}) : trace[i].err # << >>

NeedsResolve == wire.addr.FQDN # ""

PastResolve == pc \notin {"new", "rejected", "resolve"}
PastRewrite == PastResolve /\ pc # "rewrite" /\ ~ResolveFailed
PastAllow == PastRewrite /\ pc # "allow"
PastDispatch == PastAllow /\ pc # "dispatch" /\ ~Denied

\* Where the rule check stands in the trace of a request.
AllowPos == 1 + (IF NeedsResolve THEN 1 ELSE 0) + (IF cfg.rewriter THEN 1 ELSE 0)

\* The handler a request of command c goes to under the Server's options.
ExpectedHandler(c) ==
    IF c \in cfg.user
    THEN (IF c = 1 THEN "userConnect" ELSE IF c = 2 THEN "userBind" ELSE "userAssociate")
    ELSE (IF c = 1 THEN "handleConnect" ELSE IF c = 2 THEN "handleBind" ELSE "handleAssociate")

\* C7: handleRequest calls the resolver first, and only for a destination
\* with an FQDN; then the rewriter, when one is configured; then the rule
\* check, once for every request whose resolution did not fail, with the
\* rewritten destination in the request; and only then one command
\* handler, the user's for the command when registered and the built-in
\* one otherwise, before any dial.
C7_PipelineOrder ==
    /\ \A i \in TraceIdx({"resolve"}) : i = 1 /\ NeedsResolve
    /\ (PastResolve /\ NeedsResolve => TraceIdx({"resolve"}) = {1})
    /\ \A i \in TraceIdx({"rewrite"}) :
          cfg.rewriter /\ i = AllowPos - 1 /\ req.DestRef = "new"
    /\ (PastRewrite /\ cfg.rewriter => TraceIdx({"rewrite"}) = {AllowPos - 1})
    /\ \A i \in TraceIdx({"allow"}) :
          /\ i = AllowPos
          /\ trace[i].arg = (IF cfg.rewriter THEN req.Rewritten ELSE req.RawDestAddr)
          /\ cfg.rewriter => trace[i].arg \in RewriteTargets
    /\ (PastAllow => TraceIdx({"allow"}) = {AllowPos})
    /\ \A i \in TraceIdx(HandlerEvents) :
          /\ i = AllowPos + 1
          /\ trace[AllowPos].ev = "allow"
          /\ trace[AllowPos].err = << >>
          /\ trace[i].ev = ExpectedHandler(req.Command)
    /\ (PastDispatch => TraceIdx(HandlerEvents) = {AllowPos + 1})
    /\ \A i \in TraceIdx(DialEvents \cup {"listen:udp"}) :
          i > AllowPos + 1 /\ trace[AllowPos + 1].ev \in BuiltinEvents

C7_Witness ==
    /\ NeedsResolve
    /\ cfg.rewriter
    /\ Len(trace) = 5
    /\ trace[1].ev = "resolve"
    /\ trace[2].ev = "rewrite"
    /\ trace[3].ev = "allow"
    /\ trace[4].ev = "handleAssociate"
    /\ trace[5].ev = "dial:udp"

\* C8: when the destination is an FQDN and the resolver fails, one reply of
\* status HostUnreachable is handed to the client writer, handleRequest
\* returns a non-nil error, and neither the rewriter nor the rule check
\* nor a dial nor a command handler is invoked.
C8_ResolveFailure ==
    ResolveFailed =>
        /\ NeedsResolve
        /\ Len(trace) = 1
        /\ Len(replies) = 1
        /\ replies[1].status = RepHostUnreachable
        /\ replies[1].out \in {"ok", "werr"}
        /\ pc = "done"
        /\ IsError(ret)
        /\ req.DestRef = "nil"
        /\ NothingStarted

C8_Witness ==
    /\ ResolveFailed
    /\ cfg.rewriter
    /\ cfg.user # {}
    /\ replies[1].out = "ok"

\* The handler has left its body with a result; handleAssociate may still
\* be in its deferred closes.
Returned == pc \in {"a_closeBind", "a_closeTarget", "done"}

\* C9: a reply that could not be sent is the last thing its handler did:
\* the handler has returned the error at once, no relay task was
\* submitted, nothing was relayed, and the sockets opened for the request
\* are closed once the deferred closes have run.
C9_ReplyFailureIsFatal ==
    \A i \in 1 .. Len(replies) :
        replies[i].out # "ok" =>
            /\ i = Len(replies)
            /\ Returned
            /\ ret = "failed to send reply"
            /\ p1.pc = "idle"
            /\ p2.pc = "idle"
            /\ fwd.pc = "idle"
            /\ \A a \in Sources : rt[a].pc = "idle"
            /\ toTarget = 0
            /\ toClient = 0
            /\ destWrites = << >>
            /\ bindWrites = << >>
            /\ (pc = "done" =>
                    target.st \in {"none", "closed"} /\ bindLn \in {"none", "closed"})

C9_Witness ==
    /\ pc = "done"
    /\ Len(replies) = 1
    /\ replies[1].status = RepSuccess
    /\ replies[1].out = "werr"
    /\ req.Command = CommandAssociate
    /\ target.st = "closed"
    /\ bindLn = "closed"

\* C10: NewRequest returns an error and no Request for a header whose
\* command is not CONNECT, BIND or ASSOCIATE, so that no such request is
\* handled and the default branch of the dispatch is never taken; for a
\* command in 1..3 the Request's Reader is the stream the header came
\* from, positioned after the header.
C10_ParserRejectsCommand ==
    /\ (pc # "new" /\ wire.cmd \notin {1, 2, 3}) =>
          /\ req = NoReq
          /\ IsError(reqErr)
          /\ pc = "rejected"
          /\ ret = "none"
          /\ trace = << >>
          /\ replies = << >>
    /\ (pc # "new" /\ wire.ok /\ wire.cmd \in {1, 2, 3}) =>
          /\ reqErr = "nil"
          /\ req.Command = wire.cmd
          /\ req.Reader = "bufConn"
          /\ ~stream.hdr
    /\ TraceIdx({"default"}) = {}

C10_Witness ==
    /\ pc = "rejected"
    /\ wire.ok
    /\ wire.cmd = 4
    /\ reqErr = "unrecognized command"

\* C11 as stated: the FQDN, IP and port of RawDestAddr stay what NewRequest
\* produced throughout handleRequest.
C11_RawDestAddrNeverMutated ==
    req # NoReq => req.RawDestAddr = wire.addr

\* C11, amended: the FQDN and the port of RawDestAddr stay what NewRequest
\* produced; its IP stays too for a destination given as an IP, and for a
\* destination given as an FQDN it is nil until the resolver has answered
\* and the resolver's address from then on; the Header's own copy of the
\* address is never touched; DestAddr is nil until the rewrite step, then
\* the alias of RawDestAddr, or the rewriter's result when a rewriter is
\* configured.
C11_RawDestAddrResolvedInPlace ==
    req # NoReq =>
        /\ req.RawDestAddr.FQDN = wire.addr.FQDN
        /\ req.RawDestAddr.Port = wire.addr.Port
        /\ req.Header.Address = wire.addr
        /\ (~NeedsResolve => req.RawDestAddr.IP = wire.addr.IP)
        /\ (NeedsResolve /\ (pc = "resolve" \/ ResolveFailed)
                => req.RawDestAddr.IP = wire.addr.IP)
        /\ (NeedsResolve /\ PastResolve /\ ~ResolveFailed
                => /\ req.RawDestAddr.IP \in ResolvedIPs
                   /\ trace[1].ev = "resolve"
                   /\ trace[1].arg = wire.addr)
        /\ (req.DestRef = "nil" <=> ~PastRewrite)
        /\ (req.DestRef = "raw" <=> PastRewrite /\ ~cfg.rewriter)
        /\ (req.DestRef = "raw" => DestVal = req.RawDestAddr)
        /\ (req.DestRef = "new" => req.Rewritten \in RewriteTargets)
        /\ (req.DestRef # "new" => req.Rewritten = ZeroSpec)

C11_Witness ==
    /\ pc = "a_read"
    /\ NeedsResolve
    /\ cfg.rewriter
    /\ req.DestRef = "new"
    /\ req.RawDestAddr = AddrSpec("example.com", IPv4Resolved, 80)

\* Whether an IP has a 4-byte form: four bytes, or sixteen that carry the
\* IPv4-in-IPv6 prefix.
HasV4Form(ip) ==
    \/ Len(ip) = 4
    \/ Len(ip) = 16 /\ SubSeq(ip, 1, 12) = <<0, 0, 0, 0, 0, 0, 0, 0, 0, 0, 255, 255>>

\* The last four bytes of an IP that has a 4-byte form.
V4Form(ip) == SubSeq(ip, Len(ip) - 3, Len(ip))

\* C12: a SendReply call hands at most one frame to the writer; the
\* frame's status is the reply code given and the caller's header is as
\* before the call; with no bound address the frame has type IPv4, address
\* 0.0.0.0 and port 0; a bound TCP or UDP address is encoded as IPv4 when
\* its IP has a 4-byte form, else as IPv6 when it has sixteen bytes, else
\* the call fails with the formatting error and writes nothing; a bound
\* address of another type is encoded as IPv4 0.0.0.0 port 0; the domain
\* type is used only for an address that carries an FQDN.
C12_SendReplyFrame ==
    call.st = "done" =>
        LET r == call.r
            ba == call.bindAddr
            a == ba[1]
            plain == Len(ba) = 1 /\ a.kind \in {"tcp", "udp"}
        IN
        /\ r.caller = call.head
        /\ r.caller = Parse(wire).hd
        /\ r.status = call.resp
        /\ r.head.Command = call.resp
        /\ r.head.Version = call.head.Version
        /\ (r.out = "fmterr") <=> (plain /\ ~HasV4Form(a.IP) /\ Len(a.IP) # 16)
        /\ (r.out # "fmterr" => r.out = (IF call.wok THEN "ok" ELSE "werr"))
        /\ (r.out = "fmterr" => r.err = "failed to format address")
        /\ (Len(ba) = 0 \/ (Len(ba) = 1 /\ ~plain) =>
                /\ r.head.addrType = 1
                /\ r.head.Address.IP = <<0, 0, 0, 0>>
                /\ r.head.Address.Port = 0)
        /\ (plain /\ HasV4Form(a.IP) =>
                /\ r.head.addrType = 1
                /\ r.head.Address.IP = V4Form(a.IP)
                /\ r.head.Address.Port = a.Port)
        /\ (plain /\ ~HasV4Form(a.IP) /\ Len(a.IP) = 16 =>
                /\ r.head.addrType = 4
                /\ r.head.Address.IP = a.IP
                /\ r.head.Address.Port = a.Port)
        /\ (r.out # "fmterr" => r.head.addrType # 3)

C12_Witness ==
    /\ call.st = "done"
    /\ call.bindAddr = <<NetAddr("tcp", IPv4Mapped, 55001)>>
    /\ call.head.Address.FQDN = "example.com"
    /\ call.r.out = "ok"
    /\ call.r.head.addrType = 1
    /\ call.r.head.Address.IP = <<127, 0, 0, 1>>

\* The forwarding task and the return-path tasks that were submitted have
\* all returned.
AssocTasksExited ==
    /\ fwd.pc \in {"idle", "done"}
    /\ \A a \in Sources : rt[a].pc \in {"idle", "done"}

\* C13: in an ASSOCIATE session, once the bind socket or the destination
\* socket has been closed, by the handler or by a task, the forwarding
\* task and every return-path task that was submitted eventually return.
C13_TasksExitAfterClose ==
    (bindLn = "closed" \/ (target.kind = "udp" /\ target.st = "closed"))
        ~> AssocTasksExited

C13_Witness ==
    /\ pc = "a_read"
    /\ bindLn = "closed"
    /\ target.st = "closed"
    /\ fwd.pc = "done"
    /\ \A a \in Sources : rt[a].pc = "done"
    /\ Len(bindWrites) > 0

\* The return-path tasks that are in targetUDP.ReadFrom.
DestReaders == { a \in Sources : rt[a].pc = "read" }

\* C14: in an ASSOCIATE session the destination socket has at most one
\* task reading it at any time, however many client source addresses
\* have sent frames, and the bind socket is read by the forwarding task
\* alone, which is the only task there is once any datagram was read.
C14_OneReaderPerSocket ==
    /\ Cardinality(DestReaders) <= 1
    /\ (dgrams # << >> => fwd.pc \notin {"idle", "start"})

\* The DATA fields of the well-formed frames read from the bind socket, in
\* arrival order.
WfFrames == SelectSeq(dgrams, LAMBDA d : d.wf)
WfData == [i \in 1 .. Len(WfFrames) |-> WfFrames[i].data]

\* C15: the payloads written to the destination socket are the DATA
\* fields of the well-formed frames read from the bind socket, each once
\* and in arrival order, all of them but the one the forwarding task is
\* about to write (or failed to write, which ended the task); every write
\* to the destination socket is a step of the forwarding task and every
\* write to the bind socket a step of a return-path task.
C15_WritersAndOrder ==
    /\ [](/\ Len(destWrites) <= Len(WfData)
          /\ destWrites = SubSeq(WfData, 1, Len(destWrites))
          /\ Len(WfData) - Len(destWrites) <= 1
          /\ (Len(destWrites) < Len(WfData) =>
                fwd.pc \in {"write", "closeBind", "put", "done"})
          /\ (fwd.pc = "write" =>
                /\ Len(destWrites) = Len(WfData) - 1
                /\ fwd.data = WfData[Len(WfData)]))
    /\ [][destWrites' # destWrites =>
            /\ fwd.pc = "write"
            /\ fwd'.pc = "read"
            /\ destWrites' = Append(destWrites, fwd.data)
            /\ bindWrites' = bindWrites
            /\ rt' = rt]_vars
    /\ [][bindWrites' # bindWrites =>
            /\ \E a \in Sources :
                /\ rt[a].pc = "write"
                /\ rt'[a].pc = "read"
                /\ bindWrites' = Append(bindWrites, [to |-> a, data |-> rt[a].data])
            /\ destWrites' = destWrites
            /\ fwd' = fwd]_vars

C15_Witness ==
    /\ Len(dgrams) = 2
    /\ ~dgrams[1].wf
    /\ dgrams[2].wf
    /\ destWrites = <<2>>
    /\ Len(bindWrites) = 1
    /\ fwd.pc = "read"

\* Every datagram read from the bind socket so far failed to parse.
OnlyMalformed == dgrams # << >> /\ \A i \in 1 .. Len(dgrams) : ~dgrams[i].wf

\* C16: reading a datagram that does not parse changes nothing but the
\* count of datagrams read: nothing is written, the session table and the
\* return-path tasks are as before, no socket is closed, and the
\* forwarding task is at its next read; while every datagram so far was
\* malformed and the handler runs, both sockets are open, the table is
\* empty and the forwarding task reads on.
C16_MalformedIgnored ==
    /\ [][(Len(dgrams') > Len(dgrams) /\ ~dgrams'[Len(dgrams')].wf) =>
            /\ fwd.pc = "read"
            /\ UNCHANGED <<fwd, conns, rt, spawned, destWrites, bindWrites,
                           target, bindLn, outstanding, pc, ret>>]_vars
    /\ [](OnlyMalformed /\ pc = "a_read" =>
            /\ fwd.pc = "read"
            /\ bindLn = "open"
            /\ target.st = "open"
            /\ conns = {}
            /\ destWrites = << >>
            /\ \A a \in Sources : rt[a].pc = "idle" /\ spawned[a] = 0)

C16_Witness ==
    /\ Len(dgrams) = 2
    /\ ~dgrams[1].wf
    /\ ~dgrams[2].wf
    /\ dgrams[1].src # dgrams[2].src
    /\ pc = "a_read"
    /\ fwd.pc = "read"
    /\ bindLn = "open"

\* The client source address whose frame was the k-th datagram forwarded
\* to the destination, which the destination's k-th datagram answers.
AskedBy(k) == dgrams[destWrites[k]].src

\* C17: every datagram of the destination that was written back to the
\* bind socket was written once, to a source address that has sent a
\* well-formed frame, and to the very source whose forwarded frame it
\* answers.
C17_RepliesReachTheirSource ==
    /\ \A i \in 1 .. Len(bindWrites) :
          /\ bindWrites[i].data \in 1 .. Len(destWrites)
          /\ bindWrites[i].to \in WfSources
          /\ bindWrites[i].to = AskedBy(bindWrites[i].data)
    /\ \A i, j \in 1 .. Len(bindWrites) :
          bindWrites[i].data = bindWrites[j].data => i = j

\* handleConnect has dialed its target.
ConnectDialed == \E i \in TraceIdx({"dial:tcp"}) : trace[i].err = << >>

\* C18: once handleConnect has dialed the target, the target connection
\* is open while the handler runs and closed when it has returned, on
\* every exit path: the Success reply not sent, either relay direction
\* finishing first, with or without an error.
C18_TargetClosedOnExit ==
    ConnectDialed =>
        /\ target.kind = "tcp"
        /\ (pc = "done" => target.st = "closed")
        /\ (pc # "done" => target.st = "open")
        /\ (pc = "done" =>
                \/ replies[1].out # "ok" /\ got = << >>
                \/ got = <<"eCh1">> /\ ret = p1.res
                \/ got = <<"eCh2">> /\ ret = p2.res)

C18_Witness ==
    /\ ConnectDialed
    /\ pc = "done"
    /\ got = <<"eCh1">>
    /\ ret = "nil"
    /\ p2.pc = "read"
    /\ target.st = "closed"

\* A task of the association, or the handler that opened both sockets,
\* has returned.
AssocSomeoneExited ==
    \/ fwd.pc = "done"
    \/ \E a \in Sources : rt[a].pc = "done"
    \/ pc = "done" /\ bindLn # "none"

\* C19: in an ASSOCIATE session, whenever the forwarding task, a
\* return-path task or the handler has returned, the bind socket and the
\* destination socket are both closed; a socket that is closed stays
\* closed whoever closes it again, and a later close changes neither what
\* the handler returned nor what was relayed.
C19_ClosedAfterAnyExit ==
    /\ [](AssocSomeoneExited => bindLn = "closed" /\ target.st = "closed")
    /\ [][bindLn = "closed" => bindLn' = "closed"]_vars
    /\ [][target.st = "closed" => target'.st = "closed"]_vars
    /\ [][(bindLn = "closed" /\ target.st = "closed" /\ (fwd' # fwd \/ rt' # rt)) =>
            UNCHANGED <<ret, destWrites, bindWrites, replies, target, bindLn>>]_vars

C19_Witness ==
    /\ pc = "done"
    /\ fwd.pc = "done"
    /\ \A a \in Sources : rt[a].pc = "done"
    /\ bindLn = "closed"
    /\ target.st = "closed"
    /\ ret = "use of closed network connection"

\* The buffers held now: one by each Proxy in its copy, one by the
\* ASSOCIATE foreground in its read loop, one by the forwarding task, one
\* by each return-path task and a second one while it frames a datagram.
Held ==
    (IF p1.pc \in {"read", "write"} THEN 1 ELSE 0)
    + (IF p2.pc \in {"read", "write"} THEN 1 ELSE 0)
    + (IF pc = "a_read" THEN 1 ELSE 0)
    + (IF fwd.pc \in {"read", "write", "closeBind", "put"} THEN 1 ELSE 0)
    + (IF rt["10.0.0.1:5000"].pc \in {"read", "closeBind", "put"} THEN 1
       ELSE IF rt["10.0.0.1:5000"].pc = "write" THEN 2 ELSE 0)
    + (IF rt["10.0.0.2:5000"].pc \in {"read", "closeBind", "put"} THEN 1
       ELSE IF rt["10.0.0.2:5000"].pc = "write" THEN 2 ELSE 0)

\* The handler and every task of the session have returned.
SessionOver ==
    /\ pc = "done"
    /\ p1.pc \in {"idle", "done"}
    /\ p2.pc \in {"idle", "done"}
    /\ AssocTasksExited

\* C20: the buffers out of the pool are exactly those of the holders that
\* are running, so each holder returns each of its buffers once on every
\* path out; the count never goes below zero, and it is zero once the
\* handler and all tasks have returned.
C20_BuffersReturned ==
    /\ outstanding = Held
    /\ outstanding >= 0
    /\ (SessionOver => outstanding = 0)

C20_Witness ==
    /\ SessionOver
    /\ fwd.pc = "done"
    /\ \A a \in Sources : rt[a].pc = "done"
    /\ Len(bindWrites) = 1
    /\ Len(destWrites) = 2
    /\ outstanding = 0
====
